---- MODULE Spec2Model ----
(***************************************************************************)
(* SecureMint Engine: the invariant-gated batch execution engine.          *)
(*                                                                         *)
(*   bulk_operations.py   BulkOperator   validation, simulation, execution *)
(*   securemint_api.py    SecureMintAPI  ledger reads/writes, invariants   *)
(*   securemint_cli.py    SecureMintCLI  mint_batch / burn_batch flows     *)
(*                                                                         *)
(* The ledger (token, policy, oracle and emergency contracts behind an RPC *)
(* endpoint) is a remote service: a read returns the ledger's value or     *)
(* raises, a write returns a success receipt, a non-success receipt, or    *)
(* raises.  The client is a single asyncio coroutine; its steps below are  *)
(* the stretches of code between two suspension or decision points.        *)
(***************************************************************************)
EXTENDS Integers, Sequences, FiniteSets, TLC

(***************************************************************************)
(* Bounds of the model.                                                    *)
(***************************************************************************)
MaxReq == 2          \* longest request list
MaxRetries == 2      \* largest max_retries argument of a direct call
MaxCliRetries == 1   \* largest --retries argument of a mint-batch run

Amounts == {0, 1, 2}                 \* request amounts (0 stands for "<= 0")
\* "ok": 0x and 40 hex digits; "bad": a string of the wrong length, which
\* neither _is_valid_address nor web3 accepts; "none": no address (None, "").
Recipients == {"ok", "bad", "none"}
BatchSizes == {1, 2}                 \* batch_size arguments (>= 1)
GasValues == {3}                     \* gas reported by a receipt or an estimate
BalanceValues == {1}                 \* the holder's token balance

None == "None"

\* execute_burn_batch's default max_retries; burn_batch never passes another.
DefaultMaxRetries == 3

AllContracts == {"token", "policy", "oracle", "emergency"}
\* The configurations of SecureMintAPI.contracts: everything configured, or
\* one contract left without address/ABI.
ContractConfigs == {AllContracts} \cup {AllContracts \ {c} : c \in AllContracts}

\* A malformed or missing address comes with amount 1: the amount of such a
\* row plays no part beyond being positive.
Request == {r \in [recipient : Recipients, amount : Amounts] :
              r.recipient = "ok" \/ r.amount = 1}

RECURSIVE SeqsUpTo(_, _)
SeqsUpTo(S, n) ==
    IF n = 0 THEN {<<>>}
    ELSE LET shorter == SeqsUpTo(S, n - 1)
         IN  shorter \cup {Append(s, x) : s \in {t \in shorter : Len(t) = n - 1}, x \in S}

RequestLists == SeqsUpTo(Request, MaxReq)

RECURSIVE Pow2(_)
Pow2(k) == IF k = 0 THEN 1 ELSE 2 * Pow2(k - 1)

RECURSIVE SumSeq(_)
SumSeq(s) == IF s = <<>> THEN 0 ELSE Head(s) + SumSeq(Tail(s))

VARIABLES
    entry,        \* "cli": a SecureMintCLI flow; "direct": a BulkOperator call
    cmd,          \* "mint" or "burn"
    requests,     \* the loaded request list
    account,      \* SecureMintAPI.account is set (a private key was given)
    contracts,    \* the keys of SecureMintAPI.contracts
    force,        \* args.force
    dry_run,      \* args.dry_run
    totalSupply,  \* ledger: token.totalSupply()
    backing,      \* ledger: oracle.getLatestBacking()
    epochMinted,  \* ledger: policy.epochMintedAmount()
    balance,      \* ledger: token.balanceOf(holder) of the well-formed holder
    nonce,        \* ledger: transaction count of the signing account
    pc,           \* position of the coroutine
    validation,   \* << what validate_mint_batch returned >>, <<>> before
    invariants,   \* << what check_invariants returned >>, <<>> before
    rc,           \* << the flow's return code >>, <<>> before it returns
    batch_size, max_retries,
    result,       \* the BatchResult being filled
    batch_idx, j, \* current batch and position in it
    attempt, success, last_error,
    waits,        \* the backoff sleeps taken for the current request, in order
    nwrites,      \* api.mint / api.burn calls made for the current request
    status,       \* per request: Queued, Succeeded or Failed, and the gas it used
    wrote,        \* some api.mint / api.burn call was made in this run
    sim_answers,  \* ledger: what eth_call answered for the calls simulated so far
    first_flags,  \* << the would-succeed flags of an earlier simulation >>, or <<>>
    progress_callback, \* execute_mint_batch was given a progress_callback
    callbacks,    \* what progress_callback was handed, call by call
    tx_nonce,     \* << the nonce of the transaction last built >>, <<>> if none was
    inflight,     \* api.mint / api.burn calls started that neither returned nor raised
    pending,      \* ledger: transactions broadcast and not mined yet
    committed,    \* ledger: per request, its transactions mined with success
    call_args,    \* the arguments of a function called on its own
    call_local,   \* the locals of that call while it runs
    call_ret      \* << what the call returned >>, <<>> before it returns

vars == <<entry, cmd, requests, account, contracts, force, dry_run,
          totalSupply, backing, epochMinted, balance, nonce,
          pc, validation, invariants, rc, batch_size, max_retries, result,
          batch_idx, j, attempt, success, last_error, waits, nwrites, status, wrote,
          sim_answers, first_flags,
          progress_callback, callbacks, tx_nonce, inflight, pending, committed,
          call_args, call_local, call_ret>>

ledgerVars == <<totalSupply, backing, epochMinted, balance, nonce>>
inputVars == <<entry, cmd, requests, account, contracts, progress_callback>>
simVars == <<sim_answers, first_flags>>
writeVars == <<callbacks, tx_nonce, inflight, pending, committed>>
callVars == <<call_args, call_local, call_ret>>
execVars == <<batch_size, max_retries, result, batch_idx, j, attempt, success,
              last_error, waits, nwrites, status, wrote>>

\* policy.epochCapacity() of the ledger.
EpochCapacity == 2

EmptyResult ==
    [success_count |-> 0, failure_count |-> 0, total_amount |-> 0,
     total_gas_used |-> 0, transactions |-> <<>>, errors |-> <<>>]

(***************************************************************************)
(* BulkOperator.validate_mint_batch                                        *)
(***************************************************************************)
\* _is_valid_address on the three classes of recipient strings.
IsValidAddress(r) == r = "ok"

\* Web3.to_checksum_address raises on a missing address and on a string of
\* the wrong length.
AddressRaises(r) == r # "ok"

\* The errors one row of the mint loop appends, in order.
MintRowErrors(i, req) ==
    IF req.recipient = "none"
    THEN << [row |-> i, kind |-> "missing_recipient"] >>
    ELSE (IF IsValidAddress(req.recipient) THEN <<>>
          ELSE << [row |-> i, kind |-> "invalid_address"] >>)
         \o (IF req.amount <= 0 THEN << [row |-> i, kind |-> "invalid_amount"] >>
             ELSE <<>>)

\* What one row of the mint loop adds to total_amount.
MintRowAmount(req) ==
    IF req.recipient = "none" THEN 0
    ELSE IF req.amount <= 0 THEN 0 ELSE req.amount

RECURSIVE MintLoopErrors(_, _)
MintLoopErrors(reqs, n) ==
    IF n = 0 THEN <<>>
    ELSE MintLoopErrors(reqs, n - 1) \o MintRowErrors(n - 1, reqs[n])

RECURSIVE MintLoopTotal(_, _)
MintLoopTotal(reqs, n) ==
    IF n = 0 THEN 0 ELSE MintLoopTotal(reqs, n - 1) + MintRowAmount(reqs[n])

\* The "check against backing" block: get_backing and get_total_supply raise
\* when their contract is not configured or the RPC call fails (rpcFails).
BackingReadRaises(rpcFails) ==
    \/ "oracle" \notin contracts
    \/ "token" \notin contracts
    \/ rpcFails

BackingCheckErrors(total_amount, rpcFails) ==
    IF BackingReadRaises(rpcFails) THEN <<>>
    ELSE IF totalSupply + total_amount > backing
         THEN << [row |-> -1, kind |-> "exceeds_backing"] >>
         ELSE <<>>

BackingCheckWarnings(rpcFails) ==
    IF BackingReadRaises(rpcFails) THEN << "could_not_verify_backing" >> ELSE <<>>

\* The "check rate limits" block: skipped without a policy contract.
RateCheckErrors(total_amount, rpcFails) ==
    IF "policy" \notin contracts \/ rpcFails THEN <<>>
    ELSE IF total_amount > EpochCapacity - epochMinted
         THEN << [row |-> -1, kind |-> "exceeds_epoch_capacity"] >>
         ELSE <<>>

RateCheckWarnings(rpcFails) ==
    IF "policy" \in contracts /\ rpcFails
    THEN << "could_not_verify_rate_limits" >> ELSE <<>>

validate_mint_batch(reqs, backingRpcFails, rateRpcFails) ==
    LET total_amount == MintLoopTotal(reqs, Len(reqs))
        errors == MintLoopErrors(reqs, Len(reqs))
                    \o BackingCheckErrors(total_amount, backingRpcFails)
                    \o RateCheckErrors(total_amount, rateRpcFails)
        warnings == BackingCheckWarnings(backingRpcFails)
                      \o RateCheckWarnings(rateRpcFails)
    IN  [valid |-> Len(errors) = 0,
         total_requests |-> Len(reqs),
         total_amount |-> total_amount,
         errors |-> errors,
         warnings |-> warnings]

(***************************************************************************)
(* BulkOperator.validate_burn_batch                                        *)
(***************************************************************************)
\* get_balance(holder) raises when the token contract is not configured, when
\* the checksum conversion of the holder fails, or when the RPC call fails.
BalanceReadRaises(req, rpcFails) ==
    \/ "token" \notin contracts
    \/ AddressRaises(req.recipient)
    \/ rpcFails

\* A burn loop in which a failed balance lookup is a row error.
BurnRowErrors_LookupBlocks(i, req, rpcFails) ==
    IF req.recipient = "none"
    THEN << [row |-> i, kind |-> "missing_holder"] >>
    ELSE (IF IsValidAddress(req.recipient) THEN <<>>
          ELSE << [row |-> i, kind |-> "invalid_address"] >>)
         \o (IF req.amount <= 0 THEN << [row |-> i, kind |-> "invalid_amount"] >>
             ELSE IF BalanceReadRaises(req, rpcFails) \/ balance < req.amount
                  THEN << [row |-> i, kind |-> "insufficient_balance"] >>
                  ELSE <<>>)

\* The errors one row of the burn loop appends, in order.  The holder is the
\* request's "holder" or "recipient" entry: the model's recipient field.
BurnRowErrors(i, req, rpcFails) ==
    IF req.recipient = "none"
    THEN << [row |-> i, kind |-> "missing_holder"] >>
    ELSE (IF IsValidAddress(req.recipient) THEN <<>>
          ELSE << [row |-> i, kind |-> "invalid_address"] >>)
         \o (IF req.amount <= 0 THEN << [row |-> i, kind |-> "invalid_amount"] >>
             ELSE IF ~BalanceReadRaises(req, rpcFails) /\ balance < req.amount
                  THEN << [row |-> i, kind |-> "insufficient_balance"] >>
                  ELSE <<>>)

BurnRowWarnings(i, req, rpcFails) ==
    IF req.recipient # "none" /\ req.amount > 0 /\ BalanceReadRaises(req, rpcFails)
    THEN << [row |-> i, kind |-> "could_not_verify_balance"] >>
    ELSE <<>>

\* What one row of the burn loop adds to total_amount: both "continue"
\* statements skip the addition.
BurnRowAmount(req) ==
    IF req.recipient = "none" THEN 0
    ELSE IF req.amount <= 0 THEN 0 ELSE req.amount

RECURSIVE BurnLoopErrors(_, _, _)
BurnLoopErrors(reqs, n, failRows) ==
    IF n = 0 THEN <<>>
    ELSE BurnLoopErrors(reqs, n - 1, failRows)
           \o BurnRowErrors(n - 1, reqs[n], n \in failRows)

RECURSIVE BurnLoopWarnings(_, _, _)
BurnLoopWarnings(reqs, n, failRows) ==
    IF n = 0 THEN <<>>
    ELSE BurnLoopWarnings(reqs, n - 1, failRows)
           \o BurnRowWarnings(n - 1, reqs[n], n \in failRows)

RECURSIVE BurnLoopTotal(_, _)
BurnLoopTotal(reqs, n) ==
    IF n = 0 THEN 0 ELSE BurnLoopTotal(reqs, n - 1) + BurnRowAmount(reqs[n])

\* failRows: the rows whose balance lookup fails at the RPC layer.
validate_burn_batch(reqs, failRows) ==
    LET errors == BurnLoopErrors(reqs, Len(reqs), failRows)
    IN  [valid |-> Len(errors) = 0,
         total_requests |-> Len(reqs),
         total_amount |-> BurnLoopTotal(reqs, Len(reqs)),
         errors |-> errors,
         warnings |-> BurnLoopWarnings(reqs, Len(reqs), failRows)]

(***************************************************************************)
(* SecureMintAPI.check_invariants                                          *)
(***************************************************************************)
InvariantNames == {"solvency", "rate_limiting", "oracle_freshness", "emergency_pause"}

\* An entry is "valid" or "violated" (both carry a message), "error" (the
\* read raised: valid False and an error, no message) or "absent".
SolvencyEntry(rpcFails) ==
    IF "token" \notin contracts \/ "oracle" \notin contracts \/ rpcFails THEN "error"
    ELSE IF totalSupply <= backing THEN "valid" ELSE "violated"

RateLimitingEntry(rpcFails) ==
    IF "policy" \notin contracts THEN "absent"
    ELSE IF rpcFails THEN "error"
    ELSE IF epochMinted <= EpochCapacity THEN "valid" ELSE "violated"

OracleFreshnessEntry(rpcFails, is_stale) ==
    IF "oracle" \notin contracts \/ rpcFails THEN "error"
    ELSE IF ~is_stale THEN "valid" ELSE "violated"

EmergencyPauseEntry(rpcFails) ==
    IF "emergency" \notin contracts THEN "absent"
    ELSE IF rpcFails THEN "error"
    ELSE "valid"

check_invariants(solvFails, rateFails, freshFails, emergFails, is_stale) ==
    LET results == [n \in InvariantNames |->
                      CASE n = "solvency" -> SolvencyEntry(solvFails)
                        [] n = "rate_limiting" -> RateLimitingEntry(rateFails)
                        [] n = "oracle_freshness" -> OracleFreshnessEntry(freshFails, is_stale)
                        [] n = "emergency_pause" -> EmergencyPauseEntry(emergFails)]
    IN  [all_valid |-> \A n \in InvariantNames : results[n] \in {"valid", "absent"},
         results |-> results]

(***************************************************************************)
(* SecureMintCLI.mint_batch, up to the choice between dry run and          *)
(* execution, and SecureMintCLI.burn_batch, which has neither validation   *)
(* nor gate and no force flag.                                             *)
(***************************************************************************)
\* Lines 109-118: validate; with errors and no force, return 1.
Validate ==
    /\ pc = "validate"
    /\ \E backingRpcFails \in BOOLEAN, rateRpcFails \in BOOLEAN :
         LET v == validate_mint_batch(requests, backingRpcFails, rateRpcFails)
         IN  /\ validation' = << v >>
             /\ IF Len(v.errors) > 0 /\ ~force
                THEN pc' = "done" /\ rc' = << 1 >>
                ELSE pc' = "gate" /\ rc' = rc
    /\ UNCHANGED <<inputVars, callVars, simVars, writeVars, force, dry_run, ledgerVars, invariants, execVars>>

\* "if not invariants['all_valid']: ... if not args.force: return 1"
GateBlocks_OnlySolvency(inv) == inv.results["solvency"] = "violated" /\ ~force
GateBlocks(inv) == ~inv.all_valid /\ ~force

\* Lines 120-129: check the invariants.  Reading the latest block at the end
\* of check_invariants is outside every try, so its failure raises out of the
\* flow; printing status['message'] of an entry that holds an error instead
\* of a message raises KeyError out of the flow.
Gate ==
    /\ pc = "gate"
    /\ \E solvFails \in BOOLEAN, rateFails \in BOOLEAN, freshFails \in BOOLEAN,
          emergFails \in BOOLEAN, is_stale \in BOOLEAN, blockFails \in BOOLEAN :
         LET inv == check_invariants(solvFails, rateFails, freshFails, emergFails, is_stale)
         IN  IF blockFails
             THEN pc' = "crashed" /\ invariants' = invariants /\ rc' = rc
             ELSE /\ invariants' = << inv >>
                  /\ IF ~inv.all_valid /\ \E n \in InvariantNames : inv.results[n] = "error"
                     THEN pc' = "crashed" /\ rc' = rc
                     ELSE IF GateBlocks(inv)
                          THEN pc' = "done" /\ rc' = << 1 >>
                          ELSE pc' = "run" /\ rc' = rc
    /\ UNCHANGED <<inputVars, callVars, simVars, writeVars, force, dry_run, ledgerVars, validation, execVars>>

UseSimulation_Ignored == FALSE
\* The test "if args.dry_run" of both flows.  The validation outcome is not
\* read past line 118: the model forgets it once the flow goes on.
UseSimulation == dry_run

\* mint_batch lines 134-136, burn_batch lines 174-175: the dry run.
RunDry ==
    /\ pc = "run"
    /\ UseSimulation
    /\ pc' = "sim"
    /\ result' = EmptyResult
    /\ j' = 0
    /\ validation' = <<>>
    /\ UNCHANGED <<inputVars, callVars, simVars, writeVars, force, dry_run, ledgerVars, invariants, rc,
                   batch_size, max_retries, batch_idx, attempt, success, last_error,
                   waits, nwrites, status, wrote>>

\* mint_batch lines 137-143, burn_batch lines 176-180: the call of
\* execute_mint_batch(requests, batch_size, gas_price, retries), or of
\* execute_burn_batch(requests, batch_size) with its default max_retries.
RunExecute ==
    /\ pc = "run"
    /\ ~UseSimulation
    /\ \E bs \in BatchSizes,
          mr \in (IF cmd = "mint" THEN 0..MaxCliRetries ELSE {DefaultMaxRetries}) :
         /\ batch_size' = bs
         /\ max_retries' = mr
    /\ pc' = "exec"
    /\ result' = EmptyResult
    /\ batch_idx' = 0
    /\ validation' = <<>>
    /\ UNCHANGED <<inputVars, callVars, simVars, writeVars, force, dry_run, ledgerVars, invariants, rc,
                   j, attempt, success, last_error, waits, nwrites, status, wrote>>

\* mint_batch lines 145-155, burn_batch lines 182-187: write the results and
\* return.
Output ==
    /\ pc = "output"
    /\ pc' = "done"
    /\ rc' = IF cmd = "mint" THEN (IF result.failure_count = 0 THEN << 0 >> ELSE << 1 >>)
             ELSE << 0 >>
    /\ UNCHANGED <<inputVars, callVars, simVars, writeVars, force, dry_run, ledgerVars, validation, invariants, execVars>>

(***************************************************************************)
(* What the ledger client raises before anything is sent.                  *)
(***************************************************************************)
\* The contract a write or simulation of this command goes to.
TargetContract == IF cmd = "mint" THEN "policy" ELSE "token"

ConfigErrors == {"contract_not_configured", "no_account"}

\* SecureMintAPI.mint / burn up to _send_transaction: the error raised before
\* the ledger is asked, or None.  mint: policy lookup, then the checksum
\* conversion, then _build_tx_params; burn takes no address.
WritePrecheck(req) ==
    IF TargetContract \notin contracts THEN "contract_not_configured"
    ELSE IF cmd = "mint" /\ AddressRaises(req.recipient) THEN "bad_address"
    ELSE IF ~account THEN "no_account"
    ELSE None

(***************************************************************************)
(* BulkOperator.simulate_mint_batch / simulate_burn_batch                  *)
(***************************************************************************)
\* The entries of a report list that are about request i.
EntriesOf(list, i) == {k \in DOMAIN list : list[k].idx = i}

SimSuccess(res, idx, req, gas) ==
    [res EXCEPT !.success_count = @ + 1,
                !.total_amount = @ + req.amount,
                !.total_gas_used = @ + gas,
                !.transactions =
                    IF cmd = "mint"
                    THEN Append(@, [idx |-> idx, recipient |-> req.recipient,
                                    amount |-> req.amount, gas_used |-> gas,
                                    status |-> "simulated"])
                    ELSE @]

\* A failed simulation that is left out of failure_count.
SimFailure_NoCount(res, idx, req, err) ==
    [res EXCEPT !.errors = Append(@, [idx |-> idx, recipient |-> req.recipient,
                                      amount |-> req.amount, error |-> err])]

\* Both failure branches (sim_result["success"] false, and except) append
\* the same entry.  idx is the position of the request, not a key.
SimFailure(res, idx, req, err) ==
    [res EXCEPT !.failure_count = @ + 1,
                !.errors = Append(@, [idx |-> idx, recipient |-> req.recipient,
                                      amount |-> req.amount, error |-> err])]

\* What the simulation raises before simulate_transaction is called: the
\* contract lookup, then (mint) the checksum conversion of the recipient.
SimPrecheck(req) ==
    IF TargetContract \notin contracts THEN "contract_not_configured"
    ELSE IF cmd = "mint" /\ AddressRaises(req.recipient) THEN "bad_address"
    ELSE None

\* The ledger executes the call on its current state: the same call on an
\* unchanged ledger has the same answer.  sim_answers holds the answers given
\* so far; a call not asked before has some answer.
LedgerAnswers(req) ==
    IF req \in DOMAIN sim_answers THEN {sim_answers[req]} ELSE BOOLEAN

RecordAnswer(req, ans) ==
    [r \in DOMAIN sim_answers \cup {req} |->
        IF r = req THEN ans ELSE sim_answers[r]]

\* SecureMintAPI.simulate_transaction: eth_call and estimate_gas in one try;
\* whatever they raise, a revert reported by the ledger or a failure of the
\* RPC transport, comes back as success False with the message.
simulate_transaction(rpcFails, answer) ==
    IF rpcFails THEN [success |-> FALSE, error |-> "rpc_error"]
    ELSE IF answer THEN [success |-> TRUE, error |-> None]
    ELSE [success |-> FALSE, error |-> "reverted"]

\* One iteration of the simulation loop: only read-only calls (eth_call,
\* estimate_gas) reach the ledger.
SimStep ==
    /\ pc = "sim"
    /\ j < Len(requests)
    /\ LET req == requests[j + 1]
           pre == SimPrecheck(req)
       IN  IF pre # None
           THEN /\ result' = SimFailure(result, j + 1, req, pre)
                /\ sim_answers' = sim_answers
           ELSE \E rpcFails \in BOOLEAN, answer \in LedgerAnswers(req), gas \in GasValues :
                  LET sim_result == simulate_transaction(rpcFails, answer)
                  IN  /\ result' = IF sim_result.success
                                   THEN SimSuccess(result, j + 1, req, gas)
                                   ELSE SimFailure(result, j + 1, req, sim_result.error)
                      /\ sim_answers' = IF rpcFails THEN sim_answers
                                        ELSE RecordAnswer(req, answer)
    /\ j' = j + 1
    /\ UNCHANGED <<inputVars, callVars, writeVars, first_flags, force, dry_run, ledgerVars, pc, validation,
                   invariants, rc, batch_size, max_retries, batch_idx, attempt, success,
                   last_error, waits, nwrites, status, wrote>>

\* The loop is exhausted: the report is returned.
SimReturn ==
    /\ pc = "sim"
    /\ j = Len(requests)
    /\ pc' = IF entry = "cli" THEN "output" ELSE "returned"
    /\ UNCHANGED <<inputVars, callVars, simVars, writeVars, force, dry_run, ledgerVars, validation, invariants, rc,
                   execVars>>

\* The would-succeed flag of each request in the report of a simulation.
WouldSucceedFlags ==
    [i \in DOMAIN requests |-> EntriesOf(result.errors, i) = {}]

\* The caller simulates the same batch a second time.
SimulateAgain ==
    /\ pc = "returned"
    /\ first_flags = <<>>
    /\ first_flags' = << WouldSucceedFlags >>
    /\ result' = EmptyResult
    /\ j' = 0
    /\ pc' = "sim"
    /\ UNCHANGED <<inputVars, callVars, writeVars, sim_answers, force, dry_run, ledgerVars, validation,
                   invariants, rc, batch_size, max_retries, batch_idx, attempt, success,
                   last_error, waits, nwrites, status, wrote>>

(***************************************************************************)
(* BulkOperator.execute_mint_batch / execute_burn_batch                    *)
(***************************************************************************)
\* batches = [requests[i:i + batch_size] for i in range(0, len(requests), batch_size)]
NumBatches == (Len(requests) + batch_size - 1) \div batch_size

BatchLen(b) ==
    IF (b + 1) * batch_size <= Len(requests) THEN batch_size
    ELSE Len(requests) - b * batch_size

\* The requests of a batch taken from its end.
ReqIndex_Reversed == batch_idx * batch_size + BatchLen(batch_idx) - j

\* Position in requests of request j of batch batch_idx.
ReqIndex == batch_idx * batch_size + j + 1

\* for attempt in range(max_retries)
AttemptsLeft_OffByOne(a) == a <= max_retries
AttemptsLeft(a) == a < max_retries

\* asyncio.sleep(2 ** attempt)
BackoffDelay_Linear(a) == 2 * a
BackoffDelay(a) == Pow2(a)

\* The success branch: lines 402-411 (mint), 470-477 (burn).
RecordSuccess(res, idx, req, gas) ==
    [res EXCEPT !.success_count = @ + 1,
                !.total_amount = @ + req.amount,
                !.total_gas_used = @ + gas,
                !.transactions =
                    Append(@, IF cmd = "mint"
                              THEN [idx |-> idx, recipient |-> req.recipient,
                                    amount |-> req.amount, gas_used |-> gas,
                                    status |-> "success"]
                              ELSE [idx |-> idx, amount |-> req.amount,
                                    status |-> "success"])]

RecordFailure_NoCount(res, idx, req, err) ==
    [res EXCEPT !.errors = Append(@, [idx |-> idx, recipient |-> req.recipient,
                                      amount |-> req.amount, error |-> err,
                                      attempts |-> max_retries])]

RecordFailure_NoEntry(res, idx, req, err) ==
    IF err = None THEN [res EXCEPT !.failure_count = @ + 1]
    ELSE [res EXCEPT !.failure_count = @ + 1,
                     !.errors = Append(@, [idx |-> idx, recipient |-> req.recipient,
                                           amount |-> req.amount, error |-> err,
                                           attempts |-> max_retries])]

RecordFailure_AddsAmount(res, idx, req, err) ==
    [res EXCEPT !.failure_count = @ + 1,
                !.total_amount = @ + req.amount,
                !.errors = Append(@, [idx |-> idx, recipient |-> req.recipient,
                                      amount |-> req.amount, error |-> err,
                                      attempts |-> max_retries])]

\* "if not success": lines 421-428 (mint), 485-490 (burn, whose entry has
\* only the keys amount and error).  idx is the position of the request: it
\* is not a key of the entry, it tells the entries of equal requests apart.
RecordFailure(res, idx, req, err) ==
    [res EXCEPT !.failure_count = @ + 1,
                !.errors =
                    Append(@, IF cmd = "mint"
                              THEN [idx |-> idx, recipient |-> req.recipient,
                                    amount |-> req.amount, error |-> err,
                                    attempts |-> max_retries]
                              ELSE [idx |-> idx, amount |-> req.amount,
                                    error |-> err])]

\* last_error after a non-success receipt: set by the else branch of
\* execute_mint_batch (line 415); execute_burn_batch has no such branch.
ErrorAfterFailedReceipt(prev) ==
    IF cmd = "mint" THEN "onchain_failed" ELSE prev

\* The locals of the loop over the requests as each iteration sets them
\* (success = False; last_error = None; a fresh range for attempt).
FreshRequest ==
    /\ success' = FALSE
    /\ last_error' = None
    /\ attempt' = 0
    /\ waits' = <<>>
    /\ nwrites' = 0

\* What progress_callback(batch_idx, len(batches), result) is handed: the
\* running BatchResult as it is at the call.
ProgressSeen ==
    [batch_idx |-> batch_idx, total |-> NumBatches,
     success_count |-> result.success_count,
     failure_count |-> result.failure_count]

\* "if progress_callback:" at the head of every batch.
CallbackDue_FirstBatchOnly == progress_callback /\ batch_idx = 0
CallbackDue == progress_callback

\* for batch_idx, batch in enumerate(batches): the callback is invoked and
\* the first request of the batch is up (a batch is never empty).
BatchBegin ==
    /\ pc = "exec"
    /\ batch_idx < NumBatches
    /\ callbacks' = IF CallbackDue THEN Append(callbacks, ProgressSeen) ELSE callbacks
    /\ j' = 0
    /\ pc' = "try"
    /\ UNCHANGED <<inputVars, callVars, simVars, tx_nonce, inflight, pending, committed,
                   force, dry_run, ledgerVars, validation, invariants, rc,
                   batch_size, max_retries, result, batch_idx, attempt, success,
                   last_error, waits, nwrites, status, wrote>>

\* The loop over the batches is exhausted: the report is returned.
ExecReturn ==
    /\ pc = "exec"
    /\ batch_idx = NumBatches
    /\ pc' = IF entry = "cli" THEN "output" ELSE "done"
    /\ UNCHANGED <<inputVars, callVars, simVars, writeVars, force, dry_run, ledgerVars, validation, invariants, rc,
                   execVars>>

\* A request has been recorded: the next request of the batch starts, with
\* fresh locals, in the same stretch of code (there is no await in between).
\* After the last request of a batch execute_mint_batch sleeps one second
\* before the next batch (lines 430-432); execute_burn_batch does not.
NextRequest ==
    /\ FreshRequest
    /\ IF j + 1 < BatchLen(batch_idx)
       THEN /\ j' = j + 1
            /\ pc' = "try"
            /\ batch_idx' = batch_idx
       ELSE /\ j' = 0
            /\ IF cmd = "mint" /\ batch_idx < NumBatches - 1
               THEN pc' = "pace" /\ batch_idx' = batch_idx
               ELSE pc' = "exec" /\ batch_idx' = batch_idx + 1

\* The pacing sleep is over.
Pace ==
    /\ pc = "pace"
    /\ pc' = "exec"
    /\ batch_idx' = batch_idx + 1
    /\ UNCHANGED <<inputVars, callVars, simVars, writeVars, force, dry_run, ledgerVars, validation, invariants, rc,
                   batch_size, max_retries, result, j, attempt, success, last_error,
                   waits, nwrites, status, wrote>>

\* "nonce": self.w3.eth.get_transaction_count(self.account.address), read by
\* _build_tx_params on every call.
TxNonce_Cached == IF attempt > 0 /\ tx_nonce # <<>> THEN tx_nonce[1] ELSE nonce
TxNonce == nonce

\* "await self.api.mint(...)": the coroutine does nothing else until the call
\* has returned or raised.
AwaitWrite_FireAndForget == "try"
AwaitWrite == "call"

\* api.mint / api.burn is called: unless the client raises before anything is
\* sent (WritePrecheck), the transaction is built with the nonce just read.
WriteStart ==
    /\ pc = "try"
    /\ AttemptsLeft(attempt)
    /\ inflight' = inflight + 1
    /\ nwrites' = nwrites + 1
    /\ wrote' = TRUE
    /\ tx_nonce' = IF WritePrecheck(requests[ReqIndex]) = None
                   THEN << TxNonce >> ELSE <<>>
    /\ pc' = AwaitWrite
    /\ UNCHANGED <<inputVars, callVars, simVars, callbacks, pending, committed,
                   force, dry_run, ledgerVars, validation, invariants, rc,
                   batch_size, max_retries, result, batch_idx, j, attempt, success,
                   last_error, waits, status>>

\* The call raises with nothing broadcast: before the ledger is asked
\* (WritePrecheck) or from the RPC layer (nonce read, estimate_gas,
\* send_raw_transaction).  except Exception: last_error = str(e); sleep.
AttemptRaises ==
    /\ pc = "call"
    /\ LET pre == WritePrecheck(requests[ReqIndex])
       IN  last_error' = IF pre # None THEN pre ELSE "rpc_error"
    /\ inflight' = inflight - 1
    /\ waits' = Append(waits, BackoffDelay(attempt))
    /\ pc' = "sleep"
    /\ UNCHANGED <<inputVars, callVars, simVars, callbacks, tx_nonce, pending, committed,
                   force, dry_run, ledgerVars, validation, invariants, rc,
                   batch_size, max_retries, result, batch_idx, j, attempt, success,
                   nwrites, status, wrote>>

\* send_raw_transaction has broadcast the transaction and
\* wait_for_transaction_receipt(tx_hash, timeout=300) raises: the call
\* raises while the transaction stays with the ledger, not mined yet.
AttemptTimesOut ==
    /\ pc = "call"
    /\ tx_nonce = << nonce >>
    /\ pending' = pending \cup {[idx |-> ReqIndex, nonce |-> tx_nonce[1]]}
    /\ last_error' = "receipt_timeout"
    /\ inflight' = inflight - 1
    /\ waits' = Append(waits, BackoffDelay(attempt))
    /\ pc' = "sleep"
    /\ UNCHANGED <<inputVars, callVars, simVars, callbacks, tx_nonce, committed,
                   force, dry_run, ledgerVars, validation, invariants, rc,
                   batch_size, max_retries, result, batch_idx, j, attempt, success,
                   nwrites, status, wrote>>

\* The ledger mines a transaction whose receipt nobody waits for any more.
PendingMined ==
    \E t \in pending :
        /\ t.nonce = nonce
        /\ cmd = "burn" => totalSupply >= requests[t.idx].amount
        /\ totalSupply' = IF cmd = "mint" THEN totalSupply + requests[t.idx].amount
                          ELSE totalSupply - requests[t.idx].amount
        /\ epochMinted' = IF cmd = "mint" THEN epochMinted + requests[t.idx].amount
                          ELSE epochMinted
        /\ balance' = IF cmd = "mint" THEN balance + requests[t.idx].amount ELSE balance
        /\ nonce' = nonce + 1
        /\ committed' = [committed EXCEPT ![t.idx] = @ + 1]
        /\ pending' = pending \ {t}
        /\ UNCHANGED <<inputVars, callVars, simVars, callbacks, tx_nonce, inflight,
                       force, dry_run, backing, pc, validation, invariants, rc, execVars>>

\* The ledger drops a transaction whose nonce has been used by another one.
PendingDropped ==
    \E t \in pending :
        /\ t.nonce < nonce
        /\ pending' = pending \ {t}
        /\ UNCHANGED <<inputVars, callVars, simVars, callbacks, tx_nonce, inflight, committed,
                       force, dry_run, ledgerVars, pc, validation, invariants, rc,
                       execVars>>

\* The backoff sleep is over: the next iteration of the attempt loop.
Backoff ==
    /\ pc = "sleep"
    /\ attempt' = attempt + 1
    /\ pc' = "try"
    /\ UNCHANGED <<inputVars, callVars, simVars, writeVars, force, dry_run, ledgerVars, validation, invariants, rc,
                   batch_size, max_retries, result, batch_idx, j, success, last_error,
                   waits, nwrites, status, wrote>>

\* The transaction is mined with a non-success receipt: no sleep, next
\* attempt.  The ledger mines a transaction only under the account's
\* current nonce.
AttemptFailedReceipt ==
    /\ pc = "call"
    /\ tx_nonce = << nonce >>
    /\ inflight' = inflight - 1
    /\ nonce' = nonce + 1
    /\ last_error' = ErrorAfterFailedReceipt(last_error)
    /\ attempt' = attempt + 1
    /\ pc' = "try"
    /\ UNCHANGED <<inputVars, callVars, simVars, callbacks, tx_nonce, pending, committed,
                   force, dry_run, totalSupply, backing, epochMinted, balance,
                   validation, invariants, rc, batch_size, max_retries, result,
                   batch_idx, j, success, waits, nwrites, status, wrote>>

\* The transaction is mined with a success receipt: the ledger moves, the
\* report is updated, success = True, break.
AttemptSucceeds ==
    /\ pc = "call"
    /\ tx_nonce = << nonce >>
    /\ inflight' = inflight - 1
    /\ LET req == requests[ReqIndex]
       IN  /\ cmd = "burn" => totalSupply >= req.amount
           /\ \E gas \in GasValues :
                /\ result' = RecordSuccess(result, ReqIndex, req, gas)
                /\ status' = [status EXCEPT ![ReqIndex] =
                                 [state |-> "Succeeded", gas |-> gas]]
           /\ totalSupply' = IF cmd = "mint" THEN totalSupply + req.amount
                             ELSE totalSupply - req.amount
           /\ epochMinted' = IF cmd = "mint" THEN epochMinted + req.amount
                             ELSE epochMinted
           /\ balance' = IF cmd = "mint" THEN balance + req.amount ELSE balance
    /\ nonce' = nonce + 1
    /\ committed' = [committed EXCEPT ![ReqIndex] = @ + 1]
    /\ NextRequest
    /\ UNCHANGED <<inputVars, callVars, simVars, callbacks, tx_nonce, pending,
                   force, dry_run, backing, validation, invariants, rc,
                   batch_size, max_retries, wrote>>

\* The attempt loop ran out without success: if not success.
ReqFail ==
    /\ pc = "try"
    /\ ~AttemptsLeft(attempt)
    /\ result' = RecordFailure(result, ReqIndex, requests[ReqIndex], last_error)
    /\ status' = [status EXCEPT ![ReqIndex] = [state |-> "Failed", gas |-> 0]]
    /\ NextRequest
    /\ UNCHANGED <<inputVars, callVars, simVars, writeVars, force, dry_run, ledgerVars, validation, invariants, rc,
                   batch_size, max_retries, wrote>>

(***************************************************************************)
(* Specifications                                                          *)
(***************************************************************************)
MaxAmount == CHOOSE a \in Amounts : \A b \in Amounts : b <= a

\* A supply from which every burn of a request list can be taken.
AmpleSupply == MaxReq * MaxAmount

InitFlowLocals ==
    /\ nonce = 0
    /\ validation = <<>>
    /\ invariants = <<>>
    /\ rc = <<>>
    /\ result = EmptyResult
    /\ batch_idx = 0
    /\ j = 0
    /\ attempt = 0
    /\ success = FALSE
    /\ last_error = None
    /\ waits = <<>>
    /\ nwrites = 0
    /\ status = [i \in 1..Len(requests) |-> [state |-> "Queued", gas |-> 0]]
    /\ wrote = FALSE
    /\ sim_answers = <<>>
    /\ first_flags = <<>>
    /\ callbacks = <<>>
    /\ tx_nonce = <<>>
    /\ inflight = 0
    /\ pending = {}
    /\ committed = [i \in 1..Len(requests) |-> 0]

InitLocals ==
    /\ InitFlowLocals
    /\ call_args = <<>>
    /\ call_local = <<>>
    /\ call_ret = <<>>

\* No batch flow is running: a function is called on its own.
NoFlow ==
    /\ entry = "call"
    /\ progress_callback = FALSE
    /\ requests = <<>>
    /\ account = FALSE
    /\ contracts = AllContracts
    /\ dry_run = FALSE
    /\ force = FALSE
    /\ totalSupply = 0
    /\ backing = 0
    /\ epochMinted = 0
    /\ balance = 0
    /\ batch_size = None
    /\ max_retries = None
    /\ pc = "call"
    /\ InitFlowLocals

\* What a call leaves alone: everything but its locals and return value.
CallFrame ==
    <<inputVars, simVars, writeVars, ledgerVars, execVars, call_args, force, dry_run,
      validation, invariants, rc>>

\* The ledger states a mint-batch run starts from: solvent with room left,
\* solvent with the backing partly used, insolvent, and over the epoch capacity.
LedgerStates ==
    { [supply |-> 0, backing |-> 2, minted |-> 0],
      [supply |-> 1, backing |-> 2, minted |-> 1],
      [supply |-> 1, backing |-> 0, minted |-> 0],
      [supply |-> 0, backing |-> 2, minted |-> EpochCapacity + 1] }

\* A run of "securemint mint-batch" or "securemint burn-batch": any request
\* list, configuration, flags and ledger state.  burn-batch has no --force.
Init ==
    /\ entry = "cli"
    /\ progress_callback = FALSE
    /\ cmd \in {"mint", "burn"}
    /\ requests \in RequestLists
    /\ account \in BOOLEAN
    /\ contracts \in ContractConfigs
    /\ dry_run \in BOOLEAN
    /\ IF cmd = "mint"
       THEN /\ force \in BOOLEAN
            /\ \E l \in LedgerStates :
                 /\ totalSupply = l.supply
                 /\ backing = l.backing
                 /\ epochMinted = l.minted
            /\ balance = 0
            /\ pc = "validate"
       ELSE /\ force = FALSE
            /\ totalSupply = AmpleSupply
            /\ backing = AmpleSupply
            /\ epochMinted = 0
            /\ balance \in BalanceValues
            /\ pc = "run"
    /\ batch_size = None
    /\ max_retries = None
    /\ InitLocals

\* The executor against a ledger that mines every transaction it accepts
\* before the wait for its receipt times out.
ExecNext ==
    \/ BatchBegin \/ ExecReturn \/ Pace \/ WriteStart
    \/ AttemptRaises \/ Backoff \/ AttemptFailedReceipt \/ AttemptSucceeds \/ ReqFail

Next ==
    \/ Validate \/ Gate \/ RunDry \/ RunExecute \/ SimStep \/ SimReturn \/ Output
    \/ ExecNext

Spec == Init /\ [][Next]_vars

\* A direct call of execute_mint_batch or execute_burn_batch: any request
\* list, batch_size >= 1 and max_retries >= 0.
InitExec ==
    /\ entry = "direct"
    /\ cmd \in {"mint", "burn"}
    /\ progress_callback \in (IF cmd = "mint" THEN BOOLEAN ELSE {FALSE})
    /\ requests \in RequestLists
    /\ account \in BOOLEAN
    /\ contracts \in {AllContracts, AllContracts \ {TargetContract}}
    /\ dry_run = FALSE
    /\ force = FALSE
    /\ totalSupply = AmpleSupply
    /\ backing = AmpleSupply
    /\ epochMinted = 0
    /\ balance = 0
    /\ batch_size \in BatchSizes
    /\ max_retries \in 0..MaxRetries
    /\ pc = "exec"
    /\ InitLocals

SpecExec == InitExec /\ [][ExecNext]_vars

\* The oracle reports a lower backing than before: the ledger changes under
\* a running flow.
BackingDrops ==
    /\ backing > 0
    /\ backing' = backing - 1
    /\ UNCHANGED <<inputVars, callVars, simVars, writeVars, force, dry_run, totalSupply,
                   epochMinted, balance, nonce, pc, validation, invariants, rc,
                   execVars>>

\* A run of "securemint mint-batch" or "securemint burn-batch" against a
\* ledger whose backing changes meanwhile.
SpecDrift == Init /\ [][Next \/ BackingDrops]_vars

\* The event loop resumes the coroutine after every await, and every ledger
\* call returns or raises.
SpecExecFair == SpecExec /\ WF_vars(ExecNext)

\* The executor against a ledger on which the wait for a receipt can time
\* out, the transaction being mined later or dropped.
LossyNext == ExecNext \/ AttemptTimesOut \/ PendingMined \/ PendingDropped

SpecLossy == InitExec /\ [][LossyNext]_vars

\* simulate_mint_batch or simulate_burn_batch called twice with the same
\* request list, nothing being written to the ledger in between.
InitSim ==
    /\ entry = "direct"
    /\ progress_callback = FALSE
    /\ cmd \in {"mint", "burn"}
    /\ requests \in RequestLists
    /\ account \in BOOLEAN
    /\ contracts \in {AllContracts, AllContracts \ {TargetContract}}
    /\ dry_run = TRUE
    /\ force = FALSE
    /\ totalSupply = AmpleSupply
    /\ backing = AmpleSupply
    /\ epochMinted = 0
    /\ balance = 0
    /\ batch_size = None
    /\ max_retries = None
    /\ pc = "sim"
    /\ InitLocals

\* validate_mint_batch or validate_burn_batch called on any request list,
\* client configuration and ledger state.
InitValidate ==
    /\ entry = "direct"
    /\ progress_callback = FALSE
    /\ cmd \in {"mint", "burn"}
    /\ requests \in RequestLists
    /\ account \in BOOLEAN
    /\ contracts \in ContractConfigs
    /\ dry_run = FALSE
    /\ force = FALSE
    /\ \E l \in LedgerStates :
         /\ totalSupply = l.supply
         /\ backing = l.backing
         /\ epochMinted = l.minted
    /\ balance \in BalanceValues
    /\ batch_size = None
    /\ max_retries = None
    /\ pc = "validate_call"
    /\ InitLocals

ValidateMintCall ==
    /\ pc = "validate_call"
    /\ cmd = "mint"
    /\ \E backingRpcFails \in BOOLEAN, rateRpcFails \in BOOLEAN :
         validation' = << validate_mint_batch(requests, backingRpcFails, rateRpcFails) >>
    /\ pc' = "returned"
    /\ UNCHANGED <<inputVars, callVars, simVars, writeVars, force, dry_run, ledgerVars, invariants, rc, execVars>>

ValidateBurnCall ==
    /\ pc = "validate_call"
    /\ cmd = "burn"
    /\ \E failRows \in SUBSET DOMAIN requests :
         validation' = << validate_burn_batch(requests, failRows) >>
    /\ pc' = "returned"
    /\ UNCHANGED <<inputVars, callVars, simVars, writeVars, force, dry_run, ledgerVars, invariants, rc, execVars>>

ValidateNext == ValidateMintCall \/ ValidateBurnCall

SpecValidate == InitValidate /\ [][ValidateNext]_vars

SimNext == SimStep \/ SimReturn \/ SimulateAgain

SpecSim == InitSim /\ [][SimNext]_vars

(***************************************************************************)
(* Properties                                                              *)
(***************************************************************************)
\* The requests that reached Succeeded / Failed.
Succeeded == {i \in DOMAIN status : status[i].state = "Succeeded"}
Failed == {i \in DOMAIN status : status[i].state = "Failed"}

RECURSIVE SumOver(_, _)
SumOver(f, S) ==
    IF S = {} THEN 0
    ELSE LET x == CHOOSE y \in S : TRUE IN f[x] + SumOver(f, S \ {x})

\* The step of the executor that calls api.mint / api.burn.
WriteAttempt == WriteStart

\* C1: the report returned by execute_mint_batch / execute_burn_batch has
\* success_count + failure_count = number of requests given.
C1_CountsAddUp ==
    pc = "done" =>
        result.success_count + result.failure_count = Len(requests)

C1_Witness ==
    /\ pc = "done"
    /\ Len(requests) = MaxReq
    /\ result.success_count >= 1
    /\ result.failure_count >= 1

\* C2 (as claimed): a mint batch whose sum of amounts plus the ledger's total
\* supply exceeds the backing is reported invalid with a non-empty error list,
\* and without force the flow stops before any simulation or ledger write.
SupplyAtStart ==
    IF dry_run THEN totalSupply ELSE totalSupply - result.total_amount

BatchExceedsBacking ==
    SumSeq([i \in DOMAIN requests |-> requests[i].amount]) + SupplyAtStart > backing

C2_Claim ==
    (entry = "cli" /\ cmd = "mint" /\ BatchExceedsBacking) =>
        /\ validation # <<>> =>
              (~validation[1].valid /\ Len(validation[1].errors) > 0)
        /\ ~force => (pc \in {"validate", "done", "crashed"} /\ ~wrote)

\* C3: in a mint-batch run without force, once check_invariants has returned
\* all_valid = false no ledger write is submitted: the flow is over.
C3_GateBlocksUnforced ==
    (entry = "cli" /\ cmd = "mint" /\ ~force
       /\ invariants # <<>> /\ ~invariants[1].all_valid) =>
        (~wrote /\ pc \in {"done", "crashed"})

C3_Witness ==
    /\ entry = "cli" /\ cmd = "mint" /\ ~force /\ ~dry_run
    /\ Len(requests) > 0
    /\ invariants # <<>> /\ ~invariants[1].all_valid
    /\ pc = "done" /\ rc = << 1 >>

\* C4 (as claimed): in a burn-batch run no ledger burn is submitted for a
\* request whose amount exceeds the balance of its holder.
C4_Claim ==
    (entry = "cli" /\ cmd = "burn" /\ ~dry_run) =>
        \A i \in DOMAIN requests :
            (requests[i].recipient = "ok" /\ requests[i].amount > balance) =>
                /\ status[i].state = "Queued"
                /\ ~(pc \in {"try", "call", "sleep"} /\ ReqIndex = i /\ nwrites > 0)

\* C5: a request whose every write attempt raises is attempted exactly
\* max_retries times, sleeps 2^0, 2^1, ..., 2^(max_retries-1) in that order,
\* and is then recorded as Failed.
ExpectedWaits == [k \in 1..max_retries |-> Pow2(k - 1)]

C5_RetryBound ==
    [][ /\ (ReqFail /\ Len(waits) = nwrites) =>
              /\ nwrites = max_retries
              /\ waits = ExpectedWaits
              /\ status'[ReqIndex].state = "Failed"
        /\ (pc = "try" /\ nwrites = max_retries /\ Len(waits) = nwrites) => ReqFail
      ]_vars

C5_Witness ==
    /\ pc = "try"
    /\ max_retries >= 2
    /\ nwrites = max_retries
    /\ Len(waits) = nwrites

\* C6: the execution terminates, and when it has every request is in exactly
\* one terminal state: Succeeded with one entry in transactions and none in
\* errors, or Failed with one entry in errors and none in transactions.
OneTerminalState(i) ==
    \/ /\ status[i].state = "Succeeded"
       /\ Cardinality(EntriesOf(result.transactions, i)) = 1
       /\ EntriesOf(result.errors, i) = {}
    \/ /\ status[i].state = "Failed"
       /\ Cardinality(EntriesOf(result.errors, i)) = 1
       /\ EntriesOf(result.transactions, i) = {}

C6_EveryRequestTerminal ==
    /\ <>(pc = "done")
    /\ [](pc = "done" => \A i \in DOMAIN requests : OneTerminalState(i))

C6_Witness ==
    /\ pc = "done"
    /\ Len(requests) = MaxReq
    /\ batch_size = 1
    /\ status[1].state = "Failed"
    /\ status[MaxReq].state = "Succeeded"

\* C7: a request is written at most max_retries times and never again once
\* it has reached a terminal state; a request recorded as Failed has had all
\* of its max_retries attempts, whatever the other requests used.
C7_AttemptBudget ==
    [][ /\ WriteAttempt =>
              /\ status[ReqIndex].state = "Queued"
              /\ nwrites + 1 <= max_retries
        /\ ReqFail => nwrites = max_retries
      ]_vars

C7_Witness ==
    /\ pc = "try"
    /\ max_retries >= 2
    /\ nwrites = max_retries
    /\ Succeeded # {}

\* C8: at every point of an execution success_count and failure_count are
\* the lengths of transactions and errors, and total_amount and
\* total_gas_used are the sums over exactly the requests that Succeeded.
C8_ReportTotals ==
    pc \in {"exec", "try", "call", "sleep", "pace", "done"} =>
        /\ result.success_count = Len(result.transactions)
        /\ result.failure_count = Len(result.errors)
        /\ result.total_amount =
              SumOver([i \in DOMAIN requests |-> requests[i].amount], Succeeded)
        /\ result.total_gas_used =
              SumOver([i \in DOMAIN status |-> status[i].gas], Succeeded)

C8_Witness ==
    /\ pc = "done"
    /\ \E i \in Succeeded : requests[i].amount > 0
    /\ \E i \in Failed : requests[i].amount > 0

\* C9: a dry run never calls api.mint / api.burn and leaves the ledger
\* (supply, backing, epoch minted, balances, nonce) as it found it.
C9_DryRunReadOnly ==
    [][ (entry = "cli" /\ dry_run) =>
            /\ UNCHANGED ledgerVars
            /\ wrote' = FALSE
            /\ pc' \notin {"exec", "try", "call", "sleep", "pace"}
      ]_vars

C9_Witness ==
    /\ entry = "cli" /\ dry_run
    /\ pc = "done"
    /\ result.success_count >= 1
    /\ ~wrote

\* C10 (as claimed): a configuration error aborts the batch at once: no
\* backoff wait is taken and the attempt loop is not resumed.
C10_Claim ==
    last_error \in ConfigErrors => (waits = <<>> /\ pc \notin {"sleep", "try", "call"})

\* C11 (as claimed): validate_mint_batch never returns valid = true when the
\* backing / total supply read or the epoch minted / capacity read failed: a
\* validation that could not evaluate an aggregate check is not valid.
AggregateCheckUnevaluated(v) ==
    \E k \in DOMAIN v.warnings :
        v.warnings[k] \in {"could_not_verify_backing", "could_not_verify_rate_limits"}

C11_Claim ==
    (validation # <<>> /\ AggregateCheckUnevaluated(validation[1])) =>
        ~validation[1].valid

\* C12 (as claimed): when a mint batch was executed with force although
\* check_invariants had returned all_valid = false, the report mint_batch
\* writes names the violated invariants as an audit exception.
ViolatedInvariants(inv) ==
    {n \in InvariantNames : inv.results[n] \in {"violated", "error"}}

\* The report mint_batch writes is the record execute_mint_batch returned;
\* the invariant names it carries are those of an audit_exception key.
AuditedInvariants(report) ==
    IF "audit_exception" \in DOMAIN report THEN report.audit_exception ELSE {}

C12_Claim ==
    (entry = "cli" /\ cmd = "mint" /\ force /\ ~dry_run /\ pc = "done"
       /\ invariants # <<>> /\ ~invariants[1].all_valid) =>
        ViolatedInvariants(invariants[1]) \subseteq AuditedInvariants(result)

\* C13 (as claimed): a write attempt that returns a non-success receipt while
\* attempts remain is followed by a wait of 2^attempt before the next attempt,
\* as after a raised error: whenever attempt number `attempt` of a request is
\* about to be issued, the waits 2^0, ..., 2^(attempt-1) have been taken.
WaitsBefore(a) == [k \in 1..a |-> Pow2(k - 1)]

C13_Claim ==
    (pc = "try" /\ AttemptsLeft(attempt)) => waits = WaitsBefore(attempt)

\* C14 (as claimed): every request that ended Failed after at least one
\* attempt has an errors entry with a non-empty error, the number of attempts
\* used, and the address and amount of the request.
FailedEntryComplete(i) ==
    \E k \in EntriesOf(result.errors, i) :
        LET e == result.errors[k]
        IN  /\ {"recipient", "amount", "error", "attempts"} \subseteq DOMAIN e
            /\ e.error # None
            /\ e.attempts = max_retries
            /\ e.recipient = requests[i].recipient
            /\ e.amount = requests[i].amount

C14_Claim ==
    pc \in {"exec", "try", "call", "sleep", "pace", "done"} =>
        \A i \in Failed : max_retries >= 1 => FailedEntryComplete(i)

\* C15: in a simulation every request is simulated once, in order, whatever
\* the outcome of the others: after j requests the report counts j outcomes,
\* each failure has one errors entry for its own request, and the simulation
\* returns only when all requests have been simulated.
C15_SimulationCoversAll ==
    (dry_run /\ pc \in {"sim", "output"}) =>
        /\ result.success_count + result.failure_count = j
        /\ result.failure_count = Len(result.errors)
        /\ \A i \in DOMAIN requests :
              /\ Cardinality(EntriesOf(result.errors, i)) <= 1
              /\ i > j => EntriesOf(result.errors, i) = {}
        /\ pc = "output" => j = Len(requests)

C15_Witness ==
    /\ dry_run /\ pc = "output"
    /\ Len(requests) = MaxReq
    /\ EntriesOf(result.errors, 1) # {}
    /\ result.success_count = MaxReq - 1

\* C16 (as claimed): simulating the same batch twice against an unchanged
\* ledger gives the same would-succeed flag for every request.
C16_Claim ==
    (pc = "returned" /\ first_flags # <<>>) => WouldSucceedFlags = first_flags[1]

\* A syntactically valid row: a well-formed address and a positive amount.
RowIsValid(req) == IsValidAddress(req.recipient) /\ req.amount > 0

ValidRowsTotal(reqs) ==
    SumSeq([i \in DOMAIN reqs |-> IF RowIsValid(reqs[i]) THEN reqs[i].amount ELSE 0])

\* C17 (as claimed): a mint batch whose valid amounts sum to more than
\* epoch_capacity - epoch_minted is reported invalid, with an error that names
\* the capacity breach.
C17_Claim ==
    (cmd = "mint" /\ validation # <<>>
       /\ ValidRowsTotal(requests) > EpochCapacity - epochMinted) =>
        /\ ~validation[1].valid
        /\ \E k \in DOMAIN validation[1].errors :
              validation[1].errors[k].kind = "exceeds_epoch_capacity"

\* C18 (as claimed): the emergency state never blocks: when solvency, rate
\* limiting and oracle freshness are valid, check_invariants returns
\* all_valid = true whatever the emergency level and the outcome of reading it.
C18_Claim ==
    (invariants # <<>>
       /\ invariants[1].results["solvency"] = "valid"
       /\ invariants[1].results["rate_limiting"] = "valid"
       /\ invariants[1].results["oracle_freshness"] = "valid") =>
        invariants[1].all_valid

\* C19 (as claimed): check_invariants returns all_valid = true only if, on the
\* ledger it read, total_supply <= backing and epoch_minted <= epoch_capacity
\* and the oracle is fresh, each of the three having been evaluated.
C19_Claim ==
    (invariants # <<>> /\ invariants[1].all_valid /\ ~wrote) =>
        /\ totalSupply <= backing
        /\ epochMinted <= EpochCapacity
        /\ \A n \in {"solvency", "rate_limiting", "oracle_freshness"} :
              invariants[1].results[n] = "valid"

\* C20 (as claimed): the total_amount returned by validate_mint_batch and
\* validate_burn_batch is the sum of the amounts of the syntactically valid
\* rows: a row with a row error adds nothing to it.
C20_Claim ==
    validation # <<>> => validation[1].total_amount = ValidRowsTotal(requests)

\* The entries of a validation list (errors, warnings) about input row i.
RowEntries(list, i) == {k \in DOMAIN list : list[k].row = i - 1}

RowKinds(list, i) == {list[k].kind : k \in RowEntries(list, i)}

\* C21: in validate_burn_batch a failed balance lookup adds one warning and
\* no error for its row, the remaining rows are still validated, and the
\* lookup failure alone never makes valid = false; an insufficient balance
\* that was read is a blocking error.
C21_LookupFailureIsWarning ==
    (cmd = "burn" /\ validation # <<>>) =>
        LET v == validation[1]
            LookupFailed(i) == RowEntries(v.warnings, i) # {}
        IN  /\ \A i \in DOMAIN requests :
                  /\ Cardinality(RowEntries(v.warnings, i)) <= 1
                  /\ LookupFailed(i) => RowKinds(v.errors, i) \subseteq {"invalid_address"}
                  /\ (LookupFailed(i) /\ RowIsValid(requests[i])) =>
                        RowEntries(v.errors, i) = {}
                  /\ requests[i].recipient = "none" =>
                        RowKinds(v.errors, i) = {"missing_holder"}
                  /\ (RowIsValid(requests[i]) /\ ~LookupFailed(i)
                        /\ balance < requests[i].amount) =>
                        /\ "insufficient_balance" \in RowKinds(v.errors, i)
                        /\ ~v.valid
            /\ (\A i \in DOMAIN requests :
                   RowIsValid(requests[i])
                     /\ (LookupFailed(i) \/ balance >= requests[i].amount)) => v.valid

C21_Witness ==
    /\ cmd = "burn" /\ validation # <<>>
    /\ Len(requests) = MaxReq
    /\ requests[1] = [recipient |-> "ok", amount |-> 2]
    /\ balance < 2
    /\ RowEntries(validation[1].warnings, 1) # {}
    /\ RowEntries(validation[1].warnings, MaxReq) = {}
    /\ validation[1].valid

\* The positions recorded in a report list increase along the list.
InInputOrder(list) ==
    \A k1, k2 \in DOMAIN list : k1 < k2 => list[k1].idx < list[k2].idx

\* C22: writes are issued in input order: when a write attempt is issued, every
\* earlier request has reached its terminal state and no later request has
\* been touched; transactions and errors are each in input order.
C22_InputOrder ==
    [][ /\ WriteAttempt =>
              \A i \in DOMAIN requests :
                  /\ i < ReqIndex => status[i].state # "Queued"
                  /\ i >= ReqIndex => status[i].state = "Queued"
        /\ InInputOrder(result.transactions')
        /\ InInputOrder(result.errors')
      ]_vars

C22_Witness ==
    /\ pc = "done" /\ entry = "direct"
    /\ Len(requests) = MaxReq
    /\ batch_size = 1
    /\ Len(result.transactions) + Len(result.errors) = MaxReq
    /\ Len(result.errors) >= 1
    /\ \E i \in DOMAIN requests : status[i].state = "Succeeded"

\* C23: after each batch, mint and burn alike, the pacing delay is waited
\* before the next batch starts: the step to the next batch is the end of a
\* pacing wait whenever a batch follows; every batch holds at most batch_size
\* requests.
C23_Claim ==
    [][ /\ (batch_idx' = batch_idx + 1 /\ batch_idx' < NumBatches) => pc = "pace"
        /\ \A b \in 0..(NumBatches - 1) : BatchLen(b) <= batch_size
      ]_vars

\* C28: a backoff wait is taken only when another attempt will follow: the
\* executor never sleeps after the last permitted attempt of a request.
C28_Claim ==
    pc = "sleep" => AttemptsLeft(attempt + 1)

\* C24: within one batch execution at most one ledger write is in flight: a
\* write attempt is started only when no earlier call of api.mint / api.burn
\* is still waiting to return or raise.
C24_OneWriteInFlight ==
    /\ inflight \in {0, 1}
    /\ inflight = 1 <=> pc = "call"

C24_Witness ==
    /\ pc = "call" /\ inflight = 1
    /\ attempt >= 1
    /\ ReqIndex = MaxReq
    /\ status[1].state = "Succeeded"

\* C25: every write attempt, retries included, reads the account's nonce from
\* the ledger right before it builds its transaction: the transaction of an
\* attempt carries the ledger's count at that moment, never a count read for
\* an earlier attempt.
C25_NonceReadPerAttempt ==
    [][ (WriteStart /\ WritePrecheck(requests[ReqIndex]) = None) =>
            tx_nonce' = << nonce >>
      ]_vars

C25_Witness ==
    /\ pc = "call"
    /\ attempt >= 1
    /\ last_error = "onchain_failed"
    /\ nonce >= 1
    /\ tx_nonce = << nonce >>

\* The batches whose loop body has been entered.
BatchesBegun == IF pc \in {"exec", "done"} THEN batch_idx ELSE batch_idx + 1

\* C27: in execute_mint_batch the progress callback is invoked once per
\* batch, in batch order, before the batch's first write, and the running
\* result it is handed has success_count + failure_count = the number of
\* requests of all earlier batches.
C27_ProgressPerBatch ==
    (cmd = "mint" /\ progress_callback) =>
        /\ Len(callbacks) = BatchesBegun
        /\ \A k \in DOMAIN callbacks :
              /\ callbacks[k].batch_idx = k - 1
              /\ callbacks[k].total = NumBatches
              /\ callbacks[k].success_count + callbacks[k].failure_count
                    = (k - 1) * batch_size
        /\ pc = "call" => Len(callbacks) = batch_idx + 1

C27_Witness ==
    /\ cmd = "mint" /\ progress_callback
    /\ pc = "done"
    /\ Len(requests) = MaxReq
    /\ batch_size = 1
    /\ Len(callbacks) = MaxReq
    /\ callbacks[MaxReq].success_count + callbacks[MaxReq].failure_count = MaxReq - 1
    /\ result.success_count >= 1
    /\ result.failure_count >= 1

\* C29: for every request at most one mint transaction is committed on the
\* ledger over all of its attempts, also when an attempt raises after its
\* transaction was broadcast and the executor retries.
C29_Claim ==
    cmd = "mint" => \A i \in DOMAIN requests : committed[i] <= 1

\* C30: against a ledger that is otherwise unchanged (fixed backing, no other
\* writer) and starts solvent, a mint-batch run without force that passed
\* validation and the invariant gate never leaves total_supply above backing.
C30_Claim ==
    (entry = "cli" /\ cmd = "mint" /\ ~force /\ ~dry_run
       /\ pc \in {"exec", "try", "call", "sleep", "pace", "output", "done"}
       /\ SupplyAtStart <= backing) =>
        totalSupply <= backing

\* C26: in a mint-batch run without force every ledger write is covered by a
\* valid invariant snapshot: once the ledger has left the all-valid state
\* after the gate check, no further mint is submitted.
C26_Claim ==
    [][ (WriteStart /\ entry = "cli" /\ cmd = "mint" /\ ~force
           /\ WritePrecheck(requests[ReqIndex]) = None) =>
            (totalSupply <= backing /\ epochMinted <= EpochCapacity)
      ]_vars

\* What the rows naming holder h ask to burn, summed.
HolderTotal(reqs, h) ==
    SumSeq([i \in DOMAIN reqs |-> IF reqs[i].recipient = h THEN reqs[i].amount ELSE 0])

\* C31 (as claimed): a burn batch that validate_burn_batch reports as valid,
\* every balance having been read, never asks to burn, summed over the rows
\* naming the same holder, more than that holder's balance.
C31_Claim ==
    (cmd = "burn" /\ validation # <<>>
       /\ validation[1].valid /\ validation[1].warnings = <<>>) =>
        HolderTotal(requests, "ok") <= balance

\* C32 (as claimed): with force set the mint-batch flow always goes on to the
\* simulation / execution step: past the validation whatever its errors, and
\* past the gate whatever check_invariants returned, an entry that carries an
\* error instead of a message included.
C32_Claim ==
    [][ (entry = "cli" /\ cmd = "mint" /\ force) =>
            /\ Validate => pc' = "gate"
            /\ (Gate /\ invariants' # <<>>) => pc' = "run"
      ]_vars

(***************************************************************************)
(* BulkOperator._is_valid_address                                          *)
(***************************************************************************)
\* A string is a sequence of characters.  One character stands for each
\* class the code tells apart: the digit 0, the letters x and X, a
\* hexadecimal letter, a letter that is no hexadecimal digit, the
\* underscore, whitespace and the minus sign.
Chars == {"0", "x", "X", "a", "g", "_", " ", "-"}
HexChars == {"0", "a"}

\* len(address) != 42
AddressLength == 42

MaxRuns == 2
RunLengths == {1, 2, AddressLength - 4, AddressLength - 3, AddressLength - 2,
               AddressLength - 1}
RunChars == Chars \ {"x", "X"}
Heads == { <<>>, <<"0", "x">>, <<"0", "X">>, <<" ", "0", "x">> }

RECURSIVE Repeat(_, _)
Repeat(c, n) == IF n = 0 THEN <<>> ELSE <<c>> \o Repeat(c, n - 1)

RECURSIVE Expand(_)
Expand(runs) ==
    IF runs = <<>> THEN <<>>
    ELSE Repeat(runs[1].ch, runs[1].n) \o Expand(Tail(runs))

\* The strings tried: a head followed by up to MaxRuns runs of one character.
AddressInputs ==
    { h \o Expand(runs) :
        h \in Heads, runs \in SeqsUpTo([ch : RunChars, n : RunLengths], MaxRuns) }

RECURSIVE StripLeft(_)
StripLeft(s) == IF s # <<>> /\ s[1] = " " THEN StripLeft(Tail(s)) ELSE s

RECURSIVE StripRight(_)
StripRight(s) ==
    IF s # <<>> /\ s[Len(s)] = " " THEN StripRight(SubSeq(s, 1, Len(s) - 1)) ELSE s

\* int(s, 16) returns rather than raises ValueError: surrounding whitespace
\* is skipped, then an optional sign, then an optional 0x / 0X prefix which
\* one underscore may follow, then hexadecimal digits with single
\* underscores between them.
IntBase16Parses(s) ==
    LET t == StripRight(StripLeft(s))
        u == IF t # <<>> /\ t[1] \in {"+", "-"} THEN Tail(t) ELSE t
        hasPrefix == Len(u) >= 2 /\ u[1] = "0" /\ u[2] \in {"x", "X"}
        d0 == IF hasPrefix THEN SubSeq(u, 3, Len(u)) ELSE u
        d == IF hasPrefix /\ d0 # <<>> /\ d0[1] = "_" THEN Tail(d0) ELSE d0
    IN  /\ d # <<>>
        /\ d[1] \in HexChars
        /\ d[Len(d)] \in HexChars
        /\ \A i \in DOMAIN d : d[i] \in HexChars \cup {"_"}
        /\ \A i \in 1..(Len(d) - 1) : ~(d[i] = "_" /\ d[i + 1] = "_")

is_valid_address(address) ==
    IF address = <<>> THEN FALSE
    ELSE IF ~(Len(address) >= 2 /\ address[1] = "0" /\ address[2] = "x") THEN FALSE
    ELSE IF Len(address) # AddressLength THEN FALSE
    ELSE IntBase16Parses(address)

InitAddress ==
    /\ NoFlow
    /\ cmd = "is_valid_address"
    /\ call_args \in AddressInputs
    /\ call_local = <<>>
    /\ call_ret = <<>>

IsValidAddressCall ==
    /\ cmd = "is_valid_address"
    /\ call_ret = <<>>
    /\ call_ret' = << is_valid_address(call_args) >>
    /\ UNCHANGED <<CallFrame, call_local, pc>>

SpecAddress == InitAddress /\ [][IsValidAddressCall]_vars

\* The prefix 0x followed by exactly 40 hexadecimal characters.
WellFormedAddress(s) ==
    /\ Len(s) = AddressLength
    /\ s[1] = "0" /\ s[2] = "x"
    /\ \A i \in 3..Len(s) : s[i] \in HexChars

\* C33 (as claimed): _is_valid_address returns true exactly for the strings
\* made of 0x and exactly 40 hexadecimal characters; every other string,
\* those with underscores or whitespace included, is rejected.
C33_Claim ==
    (cmd = "is_valid_address" /\ call_ret # <<>>) =>
        (call_ret[1] <=> WellFormedAddress(call_args))

(***************************************************************************)
(* SecureMintAPI.simulate_bundle                                           *)
(***************************************************************************)
MaxTx == 3

\* A result of simulate_transaction with its gas_used: the estimate on
\* success, 0 on failure.
BundleEntry(rpcFails, answer, gas) ==
    LET sim == simulate_transaction(rpcFails, answer)
    IN  [success |-> sim.success, error |-> sim.error,
         gas_used |-> IF sim.success THEN gas ELSE 0]

\* "else: break  # Stop on first failure"
BundleBreaks_Never(e) == FALSE
BundleBreaks(e) == ~e.success

\* all(r["success"] for r in results)
AllSuccess(results) == \A k \in DOMAIN results : results[k].success

\* The names appended to invariant_violations: the entries of the snapshot
\* whose valid is false.
InvariantViolations(inv) ==
    {n \in InvariantNames : inv.results[n] \in {"violated", "error"}}

InitBundle ==
    /\ entry = "call"
    /\ cmd = "simulate_bundle"
    /\ progress_callback = FALSE
    /\ requests = <<>>
    /\ account = FALSE
    /\ contracts \in ContractConfigs
    /\ dry_run = FALSE
    /\ force = FALSE
    /\ \E l \in LedgerStates :
         /\ totalSupply = l.supply
         /\ backing = l.backing
         /\ epochMinted = l.minted
    /\ balance = 0
    /\ batch_size = None
    /\ max_retries = None
    /\ pc = "call"
    /\ InitFlowLocals
    /\ call_args \in {[k \in 1..n |-> k] : n \in 0..MaxTx}
    /\ call_local = [results |-> <<>>, total_gas |-> 0, broke |-> FALSE,
                     checked |-> FALSE]
    /\ call_ret = <<>>

\* for tx in transactions: one iteration.
BundleStep ==
    /\ cmd = "simulate_bundle" /\ pc = "call"
    /\ ~call_local.broke
    /\ Len(call_local.results) < Len(call_args)
    /\ \E rpcFails \in BOOLEAN, answer \in BOOLEAN, gas \in GasValues :
         LET e == BundleEntry(rpcFails, answer, gas)
         IN  call_local' = [call_local EXCEPT
                               !.results = Append(@, e),
                               !.total_gas = IF e.success THEN @ + e.gas_used ELSE @,
                               !.broke = BundleBreaks(e)]
    /\ UNCHANGED <<CallFrame, call_ret, pc>>

\* After the loop: the invariants are checked if every result succeeded, and
\* the report is returned.  check_invariants raises when its read of the
\* latest block fails: simulate_bundle then raises too.
BundleReturn ==
    /\ cmd = "simulate_bundle" /\ pc = "call"
    /\ call_local.broke \/ Len(call_local.results) = Len(call_args)
    /\ LET results == call_local.results
           all_success == AllSuccess(results)
           last == IF results # <<>> THEN results[Len(results)] ELSE [success |-> TRUE]
           Report(violations) ==
               [success |-> all_success /\ violations = {},
                results |-> results,
                gas_used |-> call_local.total_gas,
                invariant_violations |-> violations,
                error |-> IF ~last.success THEN last.error ELSE None]
       IN  IF all_success
           THEN \E solvFails \in BOOLEAN, rateFails \in BOOLEAN, freshFails \in BOOLEAN,
                   emergFails \in BOOLEAN, is_stale \in BOOLEAN, blockFails \in BOOLEAN :
                  LET inv == check_invariants(solvFails, rateFails, freshFails,
                                              emergFails, is_stale)
                  IN  /\ call_local' = [call_local EXCEPT !.checked = TRUE]
                      /\ IF blockFails
                         THEN call_ret' = call_ret /\ pc' = "crashed"
                         ELSE /\ call_ret' = << Report(InvariantViolations(inv)) >>
                              /\ pc' = "returned"
           ELSE /\ call_local' = call_local
                /\ call_ret' = << Report({}) >>
                /\ pc' = "returned"
    /\ UNCHANGED CallFrame

BundleNext == BundleStep \/ BundleReturn

SpecBundle == InitBundle /\ [][BundleNext]_vars

\* C34: simulate_bundle simulates in order and stops at the first failure:
\* results holds one entry per transaction up to and including the first
\* failure, gas_used sums the successful entries only, the invariants are
\* checked only when every transaction succeeded, and success is true only
\* if all transactions succeeded and no invariant is reported invalid.
C34_BundleStopsAtFirstFailure ==
    (cmd = "simulate_bundle" /\ pc \in {"returned", "crashed"}) =>
        LET results == call_local.results
            n == Len(results)
        IN  /\ n <= Len(call_args)
            /\ \A k \in 1..(n - 1) : results[k].success
            /\ n < Len(call_args) => ~results[n].success
            /\ call_local.total_gas =
                  SumSeq([k \in DOMAIN results |->
                            IF results[k].success THEN results[k].gas_used ELSE 0])
            /\ call_local.checked <=> AllSuccess(results)
            /\ pc = "returned" =>
                  /\ call_ret[1].results = results
                  /\ call_ret[1].gas_used = call_local.total_gas
                  /\ call_ret[1].success <=>
                        (n = Len(call_args) /\ AllSuccess(results)
                           /\ call_local.checked
                           /\ call_ret[1].invariant_violations = {})

C34_Witness ==
    /\ cmd = "simulate_bundle" /\ call_ret # <<>>
    /\ Len(call_args) = MaxTx
    /\ Len(call_local.results) = 2
    /\ call_local.results[1].success
    /\ ~call_local.results[2].success
    /\ call_local.total_gas > 0
    /\ ~call_local.checked
    /\ ~call_ret[1].success

(***************************************************************************)
(* ComplianceEngine._load_sanctions_list, _check_kyc, _check_aml and       *)
(* _check_single                                                           *)
(***************************************************************************)
\* An address string: which account it names and whether it is written with
\* upper-case hexadecimal letters.
AddressStrings == [id : {1, 2}, upper : BOOLEAN]

\* str.lower()
Lower_Identity(a) == a
Lower(a) == [a EXCEPT !.upper = FALSE]

\* The "addresses" of data/sanctions_addresses.json that are tried; the
\* empty set also stands for a missing file.
SanctionsFiles ==
    { {}, {[id |-> 1, upper |-> FALSE]}, {[id |-> 1, upper |-> TRUE]} }

\* self.OFAC_ADDRESSES = set(addr.lower() for addr in data.get("addresses", []))
load_sanctions_list(file) == {Lower(a) : a \in file}

\* What _check_kyc answers: the level names of the on-chain registry,
\* "unknown" without a registry, "error" when the registry call raises.
KycStatuses == {"none", "basic", "verified", "enhanced", "unknown", "error"}

\* Risk scores in tenths, around the thresholds 0.5 and 0.7.
RiskScores == {0, 6, 8}

\* What the external provider does when asked: it answers a risk score or
\* the request raises.
ProviderAnswers ==
    {[raises |-> TRUE, score |-> 0]} \cup {[raises |-> FALSE, score |-> x] : x \in RiskScores}

Providers == {"internal", "chainalysis"}

\* _check_aml: "Provider not configured" and every exception come back as
\* risk_score 0 with an error.
check_aml(configured, answer) ==
    IF ~configured THEN [risk_score |-> 0, error |-> "provider_not_configured"]
    ELSE IF answer.raises THEN [risk_score |-> 0, error |-> "provider_error"]
    ELSE [risk_score |-> answer.score, error |-> None]

\* RiskLevel values are compared as strings by max(..., key=lambda x: x.value).
RiskOrder ==
    [low |-> 3, medium |-> 4, high |-> 2, severe |-> 5, blocked |-> 1]

MaxRisk(a, b) == IF RiskOrder[b] > RiskOrder[a] THEN b ELSE a

\* "if provider != ComplianceProvider.INTERNAL" next to check_aml.
AmlLookupDue(a) == a.check_aml /\ a.provider # "internal"

\* _check_single on the arguments a: the ScreeningResult, and with it the
\* lookups the call performed.
check_single(a) ==
    LET address_lower == Lower(a.address)
        start == [address |-> a.address, compliant |-> TRUE, risk_level |-> "low",
                  kyc_status |-> None, sanctions_match |-> FALSE,
                  aml_errors |-> {}, lookups |-> {}]
        afterKyc ==
            IF a.check_kyc
            THEN [start EXCEPT
                    !.kyc_status = a.kyc,
                    !.lookups = @ \cup {"kyc"},
                    !.compliant = a.kyc \in {"verified", "enhanced"},
                    !.risk_level = IF a.kyc \in {"verified", "enhanced"} THEN @
                                   ELSE MaxRisk(@, "medium")]
            ELSE start
        aml == check_aml(a.configured, a.aml)
        afterAml ==
            IF AmlLookupDue(a)
            THEN [afterKyc EXCEPT
                    !.lookups = @ \cup {"aml"},
                    !.aml_errors = IF aml.error # None THEN {aml.error} ELSE {},
                    !.compliant = IF aml.risk_score > 7 THEN FALSE ELSE @,
                    !.risk_level = IF aml.risk_score > 7 THEN "high"
                                   ELSE IF aml.risk_score > 5 THEN MaxRisk(@, "medium")
                                   ELSE @]
            ELSE afterKyc
    IN  IF a.check_sanctions /\ address_lower \in load_sanctions_list(a.sanctions_file)
        THEN [start EXCEPT !.compliant = FALSE, !.sanctions_match = TRUE,
                           !.risk_level = "blocked"]
        ELSE afterAml

\* The arguments of a call of _check_single, with the environment it runs
\* in: the sanctions file, what the KYC registry and the provider answer.
CheckSingleArgs ==
    [address : AddressStrings, sanctions_file : SanctionsFiles,
     check_kyc : BOOLEAN, check_aml : BOOLEAN, check_sanctions : BOOLEAN,
     provider : Providers, configured : BOOLEAN,
     kyc : KycStatuses, aml : ProviderAnswers]

InitCheckSingle ==
    /\ NoFlow
    /\ cmd = "check_single"
    /\ call_args \in CheckSingleArgs
    /\ call_local = <<>>
    /\ call_ret = <<>>

CheckSingleCall ==
    /\ cmd = "check_single"
    /\ pc = "call"
    /\ call_ret' = << check_single(call_args) >>
    /\ pc' = "returned"
    /\ UNCHANGED <<CallFrame, call_local>>

SpecCheckSingle == InitCheckSingle /\ [][CheckSingleCall]_vars

\* The address, compared case-insensitively, is in the sanctions file.
Sanctioned(a) ==
    \E sa \in a.sanctions_file : sa.id = a.address.id

\* C36: with sanctions checking enabled, an address that is in the
\* sanctions set, compared case-insensitively, is returned with compliant =
\* false, sanctions_match = true and risk_level BLOCKED, and no KYC or AML
\* lookup is performed for it.
C36_SanctionedIsBlocked ==
    (cmd = "check_single" /\ call_ret # <<>>
       /\ call_args.check_sanctions /\ Sanctioned(call_args)) =>
        /\ ~call_ret[1].compliant
        /\ call_ret[1].sanctions_match
        /\ call_ret[1].risk_level = "blocked"
        /\ call_ret[1].lookups = {}

C36_Witness ==
    /\ cmd = "check_single" /\ call_ret # <<>>
    /\ call_args.check_sanctions /\ call_args.check_kyc /\ call_args.check_aml
    /\ call_args.address = [id |-> 1, upper |-> TRUE]
    /\ call_args.sanctions_file = {[id |-> 1, upper |-> FALSE]}
    /\ call_args.kyc = "verified"
    /\ call_args.provider = "chainalysis" /\ call_args.configured
    /\ ~call_ret[1].compliant
    /\ call_ret[1].risk_level = "blocked"

\* The AML screening of the call was performed and answered by the provider.
AmlScreened(a, r) ==
    "aml" \in r.lookups /\ r.aml_errors = {}

\* C37 (as claimed): with check_aml enabled an address is reported compliant
\* only if its AML screening was performed and answered: never when the
\* screening was skipped, the provider is not configured or the provider
\* call failed.
C37_Claim ==
    (cmd = "check_single" /\ call_ret # <<>> /\ call_args.check_aml) =>
        (call_ret[1].compliant => AmlScreened(call_args, call_ret[1]))

(***************************************************************************)
(* ComplianceEngine.check_batch                                            *)
(***************************************************************************)
\* batch_size = 50
ComplianceBatchSize == 50

MaxAddresses == 101

\* The address at position k of the lists tried, with what the KYC registry
\* and the provider answer about it: sanctioned and clean accounts, lower and
\* upper case, verified and unverified, low and high risk scores alternate.
SubjectAt(k) ==
    [address |-> [id |-> 1 + (k % 2), upper |-> (k % 3 = 0)],
     kyc |-> IF k % 4 = 0 THEN "none" ELSE "verified",
     aml |-> [raises |-> (k % 5 = 0), score |-> IF k % 7 = 0 THEN 8 ELSE 0]]

\* The arguments _check_single gets for position k of the batch.
SingleArgs(a, k) ==
    [address |-> a.addresses[k].address, sanctions_file |-> a.sanctions_file,
     check_kyc |-> a.check_kyc, check_aml |-> a.check_aml,
     check_sanctions |-> a.check_sanctions,
     provider |-> a.provider, configured |-> a.configured,
     kyc |-> a.addresses[k].kyc, aml |-> a.addresses[k].aml]

\* batch = addresses[i:i + batch_size]: the positions i+1 .. GroupEnd(i).
GroupEnd_All(i) == Len(call_args.addresses)
GroupEnd(i) ==
    IF i + ComplianceBatchSize < Len(call_args.addresses)
    THEN i + ComplianceBatchSize ELSE Len(call_args.addresses)

InitCheckBatch ==
    /\ NoFlow
    /\ cmd = "check_batch"
    /\ \E n \in 0..MaxAddresses, flags \in [1..3 -> BOOLEAN], provider \in Providers :
         call_args = [addresses |-> [k \in 1..n |-> SubjectAt(k)],
                      sanctions_file |-> {[id |-> 1, upper |-> FALSE]},
                      check_kyc |-> flags[1], check_aml |-> flags[2],
                      check_sanctions |-> flags[3],
                      provider |-> provider, configured |-> TRUE]
    /\ call_local = [i |-> 0, inflight |-> 0, results |-> <<>>]
    /\ call_ret = <<>>

\* asyncio.gather(*[self._check_single(addr, ...) for addr in batch]): the
\* calls of the group are started together.
GroupStart ==
    /\ cmd = "check_batch" /\ pc = "call"
    /\ call_local.i < Len(call_args.addresses)
    /\ call_local' = [call_local EXCEPT !.inflight = GroupEnd(call_local.i) - call_local.i]
    /\ pc' = "gather"
    /\ UNCHANGED <<CallFrame, call_ret>>

\* One of the calls in flight completes.
SingleCompletes ==
    /\ cmd = "check_batch" /\ pc = "gather"
    /\ call_local.inflight > 0
    /\ call_local' = [call_local EXCEPT !.inflight = @ - 1]
    /\ UNCHANGED <<CallFrame, call_ret, pc>>

\* gather returns the results of the group in the order of its arguments:
\* results.extend(batch_results).
GroupDone ==
    /\ cmd = "check_batch" /\ pc = "gather"
    /\ call_local.inflight = 0
    /\ LET i == call_local.i
           e == GroupEnd(i)
       IN  call_local' = [call_local EXCEPT
                             !.i = e,
                             !.results = @ \o [k \in 1..(e - i) |->
                                                 check_single(SingleArgs(call_args, i + k))]]
    /\ pc' = "call"
    /\ UNCHANGED <<CallFrame, call_ret>>

\* The statistics and the returned dict.
CheckBatchReturn ==
    /\ cmd = "check_batch" /\ pc = "call"
    /\ call_local.i >= Len(call_args.addresses)
    /\ LET results == call_local.results
           compliant_count == Cardinality({k \in DOMAIN results : results[k].compliant})
       IN  call_ret' = << [results |-> results,
                           total_checked |-> Len(call_args.addresses),
                           compliant |-> compliant_count,
                           non_compliant |-> Len(call_args.addresses) - compliant_count] >>
    /\ pc' = "returned"
    /\ UNCHANGED <<CallFrame, call_local>>

CheckBatchNext == GroupStart \/ SingleCompletes \/ GroupDone \/ CheckBatchReturn

SpecCheckBatch == InitCheckBatch /\ [][CheckBatchNext]_vars

\* C35: check_batch screens in consecutive groups of at most 50: never more
\* than 50 _check_single calls are in flight, a group is started only when
\* every call of the previous group has completed and its results are in,
\* and the returned results have one entry per input address, in input
\* order, with compliant + non_compliant = total_checked.
C35_GroupsOfFifty ==
    cmd = "check_batch" =>
        /\ call_local.inflight <= ComplianceBatchSize
        /\ call_local.inflight > 0 => Len(call_local.results) = call_local.i
        /\ pc = "call" => (call_local.inflight = 0
                             /\ Len(call_local.results) = call_local.i)
        /\ call_ret # <<>> =>
              LET r == call_ret[1]
              IN  /\ Len(r.results) = Len(call_args.addresses)
                  /\ \A k \in DOMAIN r.results :
                        r.results[k].address = call_args.addresses[k].address
                  /\ r.compliant + r.non_compliant = r.total_checked
                  /\ r.total_checked = Len(call_args.addresses)
                  /\ r.compliant =
                        Cardinality({k \in DOMAIN r.results : r.results[k].compliant})

C35_Witness ==
    /\ cmd = "check_batch" /\ call_ret # <<>>
    /\ Len(call_args.addresses) = 2 * ComplianceBatchSize + 1
    /\ call_ret[1].compliant > 0
    /\ call_ret[1].non_compliant > 0

(***************************************************************************)
(* scripts/ci/check_invariants.py: InvariantChecker and main               *)
(***************************************************************************)
\* A token amount with 18 decimals is written units * 10^12 + frac, with
\* 0 <= frac < 10^12: units is the amount in 6 decimals, rounded down.
MaxUnits == 2
Amounts18 == [units : 0..MaxUnits, frac : {0, 1}]

\* total_supply // (10 ** 12)
SupplyIn6Decimals(x) == x.units

\* x <= b * 10^12, for x with 18 decimals and b with 6.
LeqBacking(x, b) == x.units < b \/ (x.units = b /\ x.frac = 0)

\* The deployment manifests tried: everything, nothing, no treasury, no oracle.
CiContracts == {"token", "oracle", "policy", "treasury"}
Deployments == {CiContracts, {}, CiContracts \ {"treasury"}, CiContracts \ {"oracle"}}

\* An InvariantResult; details is kept as the kind of message.
InvariantResult(name, passed, details, severity) ==
    [name |-> name, passed |-> passed, details |-> details, severity |-> severity]

check_inv_sm_1(deployed, total_supply, verified_backing, raises) ==
    IF "token" \notin deployed \/ "oracle" \notin deployed
    THEN InvariantResult("INV-SM-1", TRUE, "skipped", "info")
    ELSE IF raises
    THEN InvariantResult("INV-SM-1", FALSE, "error", "warning")
    ELSE LET passed == SupplyIn6Decimals(total_supply) <= verified_backing
         IN  InvariantResult("INV-SM-1", passed, "checked",
                             IF ~passed THEN "critical" ELSE "info")

check_inv_sm_3(deployed, oracle_healthy, can_mint, raises) ==
    IF "oracle" \notin deployed \/ "policy" \notin deployed
    THEN InvariantResult("INV-SM-3", TRUE, "skipped", "info")
    ELSE IF raises
    THEN InvariantResult("INV-SM-3", FALSE, "error", "warning")
    ELSE IF oracle_healthy
    THEN InvariantResult("INV-SM-3", TRUE, "checked", "info")
    ELSE InvariantResult("INV-SM-3", ~can_mint, "checked",
                         IF can_mint THEN "critical" ELSE "info")

check_inv_sm_4(deployed, tiers_match, raises) ==
    IF "treasury" \notin deployed
    THEN InvariantResult("INV-SM-4", TRUE, "skipped", "info")
    ELSE IF raises
    THEN InvariantResult("INV-SM-4", FALSE, "error", "warning")
    ELSE InvariantResult("INV-SM-4", tiers_match, "checked",
                         IF ~tiers_match THEN "critical" ELSE "info")

\* critical_failures = [r for r in results if not r.passed and r.severity == "critical"]
CriticalFailures(results) ==
    {k \in DOMAIN results : ~results[k].passed /\ results[k].severity = "critical"}

\* A run of the script: the environment variables, whether the node answers
\* the connection test, the manifest and the state of the chain.
InitCi ==
    /\ NoFlow
    /\ cmd = "ci_check_invariants"
    /\ call_args \in [rpc_url : BOOLEAN, deployment_path : BOOLEAN, connected : BOOLEAN,
                      deployed : Deployments,
                      total_supply : Amounts18, verified_backing : 0..MaxUnits,
                      oracle_healthy : BOOLEAN, can_mint : BOOLEAN,
                      tiers_match : BOOLEAN]
    /\ call_local = <<>>
    /\ call_ret = <<>>

\* main up to the construction of the checker: sys.exit(1) without RPC_URL,
\* sys.exit(0) without a manifest, sys.exit(1) when the constructor raises.
CiStart ==
    /\ cmd = "ci_check_invariants" /\ pc = "call"
    /\ IF ~call_args.rpc_url THEN call_ret' = << 1 >> /\ pc' = "returned"
       ELSE IF ~call_args.deployment_path THEN call_ret' = << 0 >> /\ pc' = "returned"
       ELSE IF ~call_args.connected THEN call_ret' = << 1 >> /\ pc' = "returned"
       ELSE call_ret' = call_ret /\ pc' = "checks"
    /\ UNCHANGED <<CallFrame, call_local>>

\* run_all_checks: each check reads the chain, and each read may raise.
CiRunAllChecks ==
    /\ cmd = "ci_check_invariants" /\ pc = "checks"
    /\ \E r1 \in BOOLEAN, r3 \in BOOLEAN, r4 \in BOOLEAN :
         call_local' =
            << check_inv_sm_1(call_args.deployed, call_args.total_supply,
                              call_args.verified_backing, r1),
               check_inv_sm_3(call_args.deployed, call_args.oracle_healthy,
                              call_args.can_mint, r3),
               check_inv_sm_4(call_args.deployed, call_args.tiers_match, r4) >>
    /\ pc' = "exit"
    /\ UNCHANGED <<CallFrame, call_ret>>

\* The exit status: 1 with a critical failure, 0 otherwise.
CiExit ==
    /\ cmd = "ci_check_invariants" /\ pc = "exit"
    /\ call_ret' = IF CriticalFailures(call_local) # {} THEN << 1 >> ELSE << 0 >>
    /\ pc' = "returned"
    /\ UNCHANGED <<CallFrame, call_local>>

CiNext == CiStart \/ CiRunAllChecks \/ CiExit

SpecCi == InitCi /\ [][CiNext]_vars

\* C38 (as claimed): the script exits with status 0 only if every invariant
\* check it ran returned passed = true; a check that did not pass, one that
\* raised while reading the chain included, makes the exit status non-zero.
C38_Claim ==
    (cmd = "ci_check_invariants" /\ call_ret = << 0 >> /\ call_local # <<>>) =>
        \A k \in DOMAIN call_local : call_local[k].passed

\* C39 (as claimed): check_inv_sm_1 reports passed = true on values it read
\* only when total_supply (18 decimals) <= verified_backing (6 decimals)
\* x 10^12.
C39_Claim ==
    (cmd = "ci_check_invariants" /\ call_local # <<>>
       /\ call_local[1].details = "checked" /\ call_local[1].passed) =>
        LeqBacking(call_args.total_supply, call_args.verified_backing)

(***************************************************************************)
(* scripts/monetary_routing_ci_check.py: infer_required_routes and         *)
(* check_routing_consistency                                               *)
(***************************************************************************)
\* The keys of ROUTE_MARKERS, in their order.
RouteNames == <<"FIXED", "EMISSIONS", "SECURE_MINT", "CROSS_CHAIN">>
Routes == {RouteNames[k] : k \in DOMAIN RouteNames}

\* JSON values of PROJECT_CONTEXT.json: strings (the empty one included),
\* "true", "false" and "null" for the literals, "absent" for a missing key.
Absent == "absent"

\* context.get(key, default)
ContextGet(context, key, default) ==
    IF context[key] = Absent THEN default ELSE context[key]

\* The truth value Python gives a JSON value in "if v" / "if not v".
Truthy(v) == v \notin {"", "null", "false"}

\* Rule 2: if emissions_schedule != "none" and emissions_schedule
EmissionsRequired_DocstringRule(v) == v # "none"
EmissionsRequired(v) == v # "none" /\ Truthy(v)

infer_required_routes(context) ==
    LET money_mechanic == ContextGet(context, "money_mechanic_type", "")
        backing_type == ContextGet(context, "backing_type", "none")
        emissions_schedule == ContextGet(context, "emissions_schedule", "none")
        cross_chain_required == ContextGet(context, "cross_chain_required", "false")
        minting_required == ContextGet(context, "minting_required", "true")
    IN  (IF money_mechanic = "stablecoin_backed" \/ backing_type # "none"
         THEN << "SECURE_MINT" >> ELSE <<>>)
        \o (IF EmissionsRequired(emissions_schedule) THEN << "EMISSIONS" >> ELSE <<>>)
        \o (IF Truthy(cross_chain_required) THEN << "CROSS_CHAIN" >> ELSE <<>>)
        \o (IF ~Truthy(minting_required) THEN << "FIXED" >> ELSE <<>>)

\* The routes of required_routes that are not in documented_routes, in order.
RECURSIVE MissingRoutes(_, _)
MissingRoutes(required_routes, documented_routes) ==
    IF required_routes = <<>> THEN <<>>
    ELSE (IF Head(required_routes) \notin documented_routes
          THEN << Head(required_routes) >> ELSE <<>>)
         \o MissingRoutes(Tail(required_routes), documented_routes)

check_routing_consistency(required_routes, documented_routes) ==
    LET missing_routes == MissingRoutes(required_routes, documented_routes)
    IN  [passed |-> Len(missing_routes) = 0, missing_routes |-> missing_routes]

\* The project contexts tried, and the routes whose marker the diagram holds.
Contexts ==
    [money_mechanic_type : {"stablecoin_backed", "fixed_supply", Absent},
     backing_type : {"none", "fiat", "", "null", Absent},
     emissions_schedule : {"none", "linear", "", "null", Absent},
     cross_chain_required : {"true", "false", Absent},
     minting_required : {"true", "false", "null", Absent}]

InitRouting ==
    /\ NoFlow
    /\ cmd = "routing_check"
    /\ call_args \in [context : Contexts, documented_routes : SUBSET Routes]
    /\ call_local = <<>>
    /\ call_ret = <<>>

\* main: required_routes = infer_required_routes(context)
RoutingInfer ==
    /\ cmd = "routing_check" /\ pc = "call"
    /\ call_local' = infer_required_routes(call_args.context)
    /\ pc' = "consistency"
    /\ UNCHANGED <<CallFrame, call_ret>>

\* main: passed, missing_routes = check_routing_consistency(...)
RoutingCheck ==
    /\ cmd = "routing_check" /\ pc = "consistency"
    /\ call_ret' = << check_routing_consistency(call_local, call_args.documented_routes) >>
    /\ pc' = "returned"
    /\ UNCHANGED <<CallFrame, call_local>>

RoutingNext == RoutingInfer \/ RoutingCheck

SpecRouting == InitRouting /\ [][RoutingNext]_vars

\* The elements of a list.
Range(list) == {list[k] : k \in DOMAIN list}

\* The routes the rules require, a missing key counting as its default:
\* with an emissions schedule that is "not none" being any value but "none"
\* and minting_required false being the literal false (as claimed), or with
\* empty and null values counting as no schedule and as false (as coded).
RequiredAsClaimed(c) ==
    (IF c.money_mechanic_type = "stablecoin_backed" \/ c.backing_type \notin {"none", Absent}
     THEN {"SECURE_MINT"} ELSE {})
    \cup (IF c.emissions_schedule \notin {"none", Absent} THEN {"EMISSIONS"} ELSE {})
    \cup (IF c.cross_chain_required = "true" THEN {"CROSS_CHAIN"} ELSE {})
    \cup (IF c.minting_required = "false" THEN {"FIXED"} ELSE {})

RequiredAmended(c) ==
    (IF c.money_mechanic_type = "stablecoin_backed" \/ c.backing_type \notin {"none", Absent}
     THEN {"SECURE_MINT"} ELSE {})
    \cup (IF c.emissions_schedule \notin {"none", Absent, "", "null"}
          THEN {"EMISSIONS"} ELSE {})
    \cup (IF c.cross_chain_required = "true" THEN {"CROSS_CHAIN"} ELSE {})
    \cup (IF c.minting_required \in {"false", "null"} THEN {"FIXED"} ELSE {})

====
